---- MODULE Spec2Model ----
(***************************************************************************)
(* A model of the cooking_companion Django application: the relational     *)
(* tables of models.py, and one action per HTTP handler of views.py.       *)
(* Every handler sets `response` to what it answers: the requesting user,  *)
(* the URL name, the HTTP status and the model rows handed to the          *)
(* template (or created/edited by the request).                            *)
(***************************************************************************)
EXTENDS Integers, FiniteSets, Sequences, TLC

\* ------------------------------------------------------------------ bounds
\* Rows inserted by the create forms and the attach forms, over all tables
\* (seed rows are not counted; a CookResult is bounded by its CookSession).
MaxRows == 1
\* Edit-result requests that may be in flight between lookup and insert.
MaxInflight == 2
\* the most sessions the database holds before the first request
MaxSessions == 11
\* the most characters in the name of an uploaded file
MaxNameLen == 2

\* ------------------------------------------------------------- value sets
Users == {"u1", "u2"}
\* request.user of a request without a session: AnonymousUser
AnonymousUser == "anonymous"
\* created_by IS NULL (OwnedModel.created_by, null=True)
NULL == "NULL"
\* a null foreign key (default_recipe / recipe_used, null=True); pks start at 1
NoPk == 0
\* overall_rating IS NULL (null=True, blank=True)
NoRating == -1
MinRating == 1
MaxRating == 10
\* timezone.localdate(): dates are counted in days from today
Today == 0
\* timedelta(days=7), timedelta(days=30) of the dashboard's windows
WeekDays == 7
MonthDays == 30
\* session_qs[:10]
RecentLimit == 10

Methods == {"GET", "POST"}
\* Dish.name as posted; "" is the blank (required field missing)
Texts == {"", "a", "b"}
\* Recipe.title as posted
Titles == {"", "a"}
\* CookSession.cooked_on as posted: the field's default, today
FormDates == {Today}
\* cooked_on of stored sessions: the edges of the dashboard's windows
Dates == {Today - MonthDays - 1, Today - MonthDays, Today - 1, Today, Today + 1,
          Today + WeekDays, Today + WeekDays + 1, Today + MonthDays, Today + MonthDays + 1}
\* the four rating fields of CookResult, each with the validators 1..10
RatingFields == {"overall_rating", "taste_rating", "texture_rating", "appearance_rating"}
\* the ratings as posted: all blank, all in range, or all in range but one
\* field that is below (0) or above (11) the range
BlankRatings == [f \in RatingFields |-> NoRating]
GoodRatings == [f \in RatingFields |-> 5]
RatingInputs ==
    {BlankRatings, GoodRatings} \cup {[GoodRatings EXCEPT ![f] = v] : f \in RatingFields, v \in {0, 11}}

DomainModels == {"Recipe", "Dish", "CookSession", "CookResult"}
AttachModels == {"Note", "ReferenceURL", "TrackedImage", "PDFDocument"}
Models == DomainModels \cup AttachModels

\* model_key values a URL may carry: the allow-list and one key outside it
ModelKeys == {"recipe", "dish", "cooksession", "cookresult", "note"}

VARIABLES recipe, dish, cooksession, cookresult, attachment, nextpk, inserted, response, inflight

tables == <<recipe, dish, cooksession, cookresult, attachment, nextpk, inserted>>
vars == <<recipe, dish, cooksession, cookresult, attachment, nextpk, inserted, response, inflight>>

\* --------------------------------------------------------------- helpers
\* owned_q written without the created_by__isnull disjunct
owned_q_own_only(user, row) == row.created_by = user

\* Q(created_by=user) | Q(created_by__isnull=True)
owned_q(user, row) == row.created_by = user \/ row.created_by = NULL

\* a filter that keeps the rows nobody owns and drops the user's own
Filter_shared_only(qs, user) == {r \in qs : r.created_by = NULL}

\* qs.filter(owned_q(user))
Filter(qs, user) == {r \in qs : owned_q(user, r)}

\* get_object_or_404(qs, pk=pk): the matching rows; none means Http404
Get(qs, pk) == {r \in qs : r.pk = pk}

Pks(qs) == {r.pk : r \in qs}

\* rows as handed to a response, tagged with their model
Ret(model, rows) == {[model |-> model, row |-> r] : r \in rows}

\* A response: who asked, the URL name, the HTTP status, the rows handed to the
\* template or saved by the request, and `side`: the rows the request touched
\* besides (set null or deleted by on_delete, stamped with an owner) or
\* collided with (a protected delete, a uniqueness failure).
\* `args` holds the URL kwargs of the /target/ and /result/edit/ routes.
\* `ctx` holds what else the template gets: the errors of a re-rendered form.
NoArgs == [key |-> "", pk |-> 0]
NoCtx == [errors |-> FALSE]

Resp(user, view, status, rows, side) ==
    [user |-> user, view |-> view, args |-> NoArgs, status |-> status, rows |-> rows, side |-> side,
     ctx |-> NoCtx, location |-> ""]

\* the form is rendered again with its validation errors
WithErrors(resp) == [resp EXCEPT !.ctx = [errors |-> TRUE]]

WithArgs(resp, key, pk) == [resp EXCEPT !.args = [key |-> key, pk |-> pk]]

\* the AutoField sequence of a table after an insert (ids are never reused)
Bump(model) == [nextpk EXCEPT ![model] = @ + 1]

\* the pks a URL may name for a table: every id handed out so far (the row
\* may be gone since)
UrlPks(model) == 1 .. (nextpk[model] - 1)

\* what a form request may carry: a GET carries no payload
FormInputs(method, values, blank) == IF method = "GET" THEN {blank} ELSE values

\* no response is on its way to a client
NoResponse == Resp(NULL, "none", 0, {}, {})

\* a handler starts on a request once the previous response has been sent
Request == response = NoResponse

\* the response leaves the server
Deliver ==
    /\ response # NoResponse
    /\ response' = NoResponse
    /\ UNCHANGED <<tables, inflight>>

\* LoginRequiredMixin.dispatch of a request without an authenticated user:
\* handle_no_permission redirects to the login page, the view does not run
LoginRequired(u, view) ==
    /\ response' = [Resp(u, view, 302, {}, {}) EXCEPT !.location = "login"]
    /\ UNCHANGED <<tables, inflight>>

\* owned_q(user) in a filter when user is AnonymousUser: the lookup value is
\* no primary key, the ORM raises TypeError and the request ends in a 500
FilterRaises(u, view, key, pk) ==
    /\ response' = WithArgs(Resp(u, view, 500, {}, {}), key, pk)
    /\ UNCHANGED <<tables, inflight>>

\* form_valid without the stamping: the row is saved as the form built it
Stamp_never(obj, user) == obj

\* OwnedQuerysetMixin.form_valid: stamp created_by when it is absent
Stamp(obj, user) == IF obj.created_by = NULL THEN [obj EXCEPT !.created_by = user] ELSE obj

\* the row as it was, when saving it stamped an owner on it
Stamped(model, old) == IF old.created_by = NULL THEN Ret(model, {old}) ELSE {}

\* ------------------------------------------------------------------ Init
\* The database before the first request: empty, or holding seed rows with
\* no owner (created_by is nullable; every HTTP create stamps an owner).
\* A seed is a set of rows loaded together: none, a recipe, a dish with its
\* default recipe, or a dish with a cook session.
Seeds == {"empty", "recipe", "dish", "session"}

SeedRecipe == [pk |-> 1, created_by |-> NULL, title |-> "a"]
SeedDish(rpk) == [pk |-> 1, created_by |-> NULL, name |-> "a", default_recipe |-> rpk]
SeedSession == [pk |-> 1, created_by |-> NULL, dish |-> 1, recipe_used |-> NoPk, cooked_on |-> Today]

Init ==
    \E seed \in Seeds :
        /\ recipe = IF seed \in {"recipe", "dish"} THEN {SeedRecipe} ELSE {}
        /\ dish = CASE seed = "dish" -> {SeedDish(1)}
                    [] seed = "session" -> {SeedDish(NoPk)}
                    [] OTHER -> {}
        /\ cooksession = IF seed = "session" THEN {SeedSession} ELSE {}
        /\ cookresult = {}
        /\ attachment = [m \in AttachModels |-> {}]
        /\ nextpk = [m \in Models |->
                        CASE m = "Recipe" -> IF seed \in {"recipe", "dish"} THEN 2 ELSE 1
                          [] m = "Dish" -> IF seed \in {"dish", "session"} THEN 2 ELSE 1
                          [] m = "CookSession" -> IF seed = "session" THEN 2 ELSE 1
                          [] OTHER -> 1]
        /\ inserted = 0
        /\ response = NoResponse
        /\ inflight = {}

\* --------------------------------------------------------------- Recipes
\* RecipeForm.is_valid: title is required
RecipeFormValid(title) == title # ""

RecipeListView(u) ==
    /\ Request
    /\ IF u = AnonymousUser
       THEN LoginRequired(u, "recipe-list")
       ELSE
            /\ /\ response' = Resp(u, "recipe-list", 200, Ret("Recipe", Filter(recipe, u)), {})
               /\ UNCHANGED <<tables, inflight>>

RecipeDetailView(u, pk) ==
    /\ Request
    /\ IF u = AnonymousUser
       THEN LoginRequired(u, "recipe-detail")
       ELSE
            /\ LET found == Get(Filter(recipe, u), pk) IN
               /\ response' = IF found = {} THEN Resp(u, "recipe-detail", 404, {}, {})
                              ELSE Resp(u, "recipe-detail", 200, Ret("Recipe", found), {})
               /\ UNCHANGED <<tables, inflight>>

RecipeCreateView(u, method, title) ==
    /\ Request
    /\ IF u = AnonymousUser
       THEN LoginRequired(u, "recipe-add")
       ELSE
            /\ IF method = "POST" /\ RecipeFormValid(title)
               THEN /\ inserted < MaxRows
                    /\ LET obj == Stamp([pk |-> nextpk["Recipe"], created_by |-> NULL, title |-> title], u) IN
                       /\ recipe' = recipe \cup {obj}
                       /\ nextpk' = Bump("Recipe")
                       /\ inserted' = inserted + 1
                       /\ response' = Resp(u, "recipe-add", 302, Ret("Recipe", {obj}), {})
                    /\ UNCHANGED <<dish, cooksession, cookresult, attachment, inflight>>
               ELSE /\ response' = Resp(u, "recipe-add", 200, {}, {})
                    /\ UNCHANGED <<tables, inflight>>

RecipeUpdateView(u, pk, method, title) ==
    /\ Request
    /\ IF u = AnonymousUser
       THEN LoginRequired(u, "recipe-edit")
       ELSE
            /\ LET found == Get(Filter(recipe, u), pk) IN
               IF found = {}
               THEN /\ response' = Resp(u, "recipe-edit", 404, {}, {})
                    /\ UNCHANGED <<tables, inflight>>
               ELSE LET old == CHOOSE r \in found : TRUE IN
                    IF method = "POST" /\ RecipeFormValid(title)
                    THEN LET obj == Stamp([old EXCEPT !.title = title], u) IN
                         /\ recipe' = (recipe \ {old}) \cup {obj}
                         /\ response' = Resp(u, "recipe-edit", 302, Ret("Recipe", {obj}), Stamped("Recipe", old))
                         /\ UNCHANGED <<dish, cooksession, cookresult, attachment, nextpk, inserted, inflight>>
                    ELSE /\ response' = Resp(u, "recipe-edit", 200, Ret("Recipe", {old}), {})
                         /\ UNCHANGED <<tables, inflight>>

\* on_delete=CASCADE in the place of SET_NULL: the referencing dishes go
DishSetNull_cascade(rpk) == {d \in dish : d.default_recipe # rpk}

\* on_delete=SET_NULL of Dish.default_recipe
DishSetNull(rpk) ==
    {IF d.default_recipe = rpk THEN [d EXCEPT !.default_recipe = NoPk] ELSE d : d \in dish}

\* on_delete=SET_NULL of CookSession.recipe_used
SessionSetNull(rpk) ==
    {IF s.recipe_used = rpk THEN [s EXCEPT !.recipe_used = NoPk] ELSE s : s \in cooksession}

RecipeDeleteView(u, pk, method) ==
    /\ Request
    /\ IF u = AnonymousUser
       THEN LoginRequired(u, "recipe-delete")
       ELSE
            /\ LET found == Get(Filter(recipe, u), pk) IN
               IF found = {}
               THEN /\ response' = Resp(u, "recipe-delete", 404, {}, {})
                    /\ UNCHANGED <<tables, inflight>>
               ELSE IF method = "POST"
                    THEN /\ recipe' = recipe \ found
                         /\ dish' = DishSetNull(pk)
                         /\ cooksession' = SessionSetNull(pk)
                         /\ response' = Resp(u, "recipe-delete", 302, Ret("Recipe", found),
                                             Ret("Dish", {d \in dish : d.default_recipe = pk})
                                             \cup Ret("CookSession", {s \in cooksession : s.recipe_used = pk}))
                         /\ UNCHANGED <<cookresult, attachment, nextpk, inserted, inflight>>
                    ELSE /\ response' = Resp(u, "recipe-delete", 200, Ret("Recipe", found), {})
                         /\ UNCHANGED <<tables, inflight>>

\* ---------------------------------------------------------------- Dishes
\* DishForm.is_valid: name is required; default_recipe is optional and must
\* be in Recipe.objects.filter(_owned_q(user))
DishFormValid(u, name, rpk) ==
    /\ name # ""
    /\ rpk = NoPk \/ rpk \in Pks(Filter(recipe, u))

\* a Dish table without the UniqueConstraint
uniq_dish_unchecked(obj) == TRUE

\* UniqueConstraint(fields=["created_by", "name"]): the database refuses a
\* row whose (created_by, name) another row has; NULLs never compare equal.
uniq_dish_per_owner_name(obj) ==
    \A d \in dish :
        d.pk # obj.pk => ~(d.created_by # NULL /\ d.created_by = obj.created_by /\ d.name = obj.name)

\* the rows a refused save collides with
DishClash(obj) ==
    {d \in dish : d.pk # obj.pk /\ d.created_by = obj.created_by /\ d.name = obj.name}

\* Count("cook_sessions") of a dish
session_count(d) == Cardinality({s \in cooksession : s.dish = d.pk})

DishListView(u) ==
    /\ Request
    /\ IF u = AnonymousUser
       THEN LoginRequired(u, "dish-list")
       ELSE
            /\ /\ response' = Resp(u, "dish-list", 200, Ret("Dish", Filter(dish, u)), {})
               /\ UNCHANGED <<tables, inflight>>

DishDetailView(u, pk) ==
    /\ Request
    /\ IF u = AnonymousUser
       THEN LoginRequired(u, "dish-detail")
       ELSE
            /\ LET found == Get(Filter(dish, u), pk) IN
               /\ response' = IF found = {} THEN Resp(u, "dish-detail", 404, {}, {})
                              ELSE Resp(u, "dish-detail", 200, Ret("Dish", found), {})
               /\ UNCHANGED <<tables, inflight>>

DishCreateView(u, method, name, rpk) ==
    /\ Request
    /\ IF u = AnonymousUser
       THEN LoginRequired(u, "dish-add")
       ELSE
            /\ IF method = "POST" /\ DishFormValid(u, name, rpk)
               THEN LET obj == Stamp([pk |-> nextpk["Dish"], created_by |-> NULL, name |-> name,
                                      default_recipe |-> rpk], u) IN
                    IF uniq_dish_per_owner_name(obj)
                    THEN /\ inserted < MaxRows
                         /\ dish' = dish \cup {obj}
                         /\ nextpk' = Bump("Dish")
                         /\ inserted' = inserted + 1
                         /\ response' = Resp(u, "dish-add", 302, Ret("Dish", {obj}), {})
                         /\ UNCHANGED <<recipe, cooksession, cookresult, attachment, inflight>>
                    ELSE \* IntegrityError from obj.save(): nothing is written
                         /\ response' = Resp(u, "dish-add", 500, Ret("Dish", {obj}), Ret("Dish", DishClash(obj)))
                         /\ UNCHANGED <<tables, inflight>>
               ELSE /\ response' = Resp(u, "dish-add", 200, {}, {})
                    /\ UNCHANGED <<tables, inflight>>

DishUpdateView(u, pk, method, name, rpk) ==
    /\ Request
    /\ IF u = AnonymousUser
       THEN LoginRequired(u, "dish-edit")
       ELSE
            /\ LET found == Get(Filter(dish, u), pk) IN
               IF found = {}
               THEN /\ response' = Resp(u, "dish-edit", 404, {}, {})
                    /\ UNCHANGED <<tables, inflight>>
               ELSE LET old == CHOOSE r \in found : TRUE IN
                    IF method = "POST" /\ DishFormValid(u, name, rpk)
                    THEN LET obj == Stamp([old EXCEPT !.name = name, !.default_recipe = rpk], u) IN
                         IF uniq_dish_per_owner_name(obj)
                         THEN /\ dish' = (dish \ {old}) \cup {obj}
                              /\ response' = Resp(u, "dish-edit", 302, Ret("Dish", {obj}), Stamped("Dish", old))
                              /\ UNCHANGED <<recipe, cooksession, cookresult, attachment, nextpk, inserted, inflight>>
                         ELSE \* IntegrityError from obj.save(): nothing is written
                              /\ response' = Resp(u, "dish-edit", 500, Ret("Dish", {obj}), Ret("Dish", DishClash(obj)))
                              /\ UNCHANGED <<tables, inflight>>
                    ELSE /\ response' = Resp(u, "dish-edit", 200, Ret("Dish", {old}), {})
                         /\ UNCHANGED <<tables, inflight>>

\* no session blocks the delete (on_delete without PROTECT)
DishProtect_none(pk) == {}

\* on_delete=PROTECT of CookSession.dish: the sessions that block the delete
DishProtect(pk) == {s \in cooksession : s.dish = pk}

DishDeleteView(u, pk, method) ==
    /\ Request
    /\ IF u = AnonymousUser
       THEN LoginRequired(u, "dish-delete")
       ELSE
            /\ LET found == Get(Filter(dish, u), pk) IN
               IF found = {}
               THEN /\ response' = Resp(u, "dish-delete", 404, {}, {})
                    /\ UNCHANGED <<tables, inflight>>
               ELSE IF method = "POST"
                    THEN IF DishProtect(pk) = {}
                         THEN /\ dish' = dish \ found
                              /\ response' = Resp(u, "dish-delete", 302, Ret("Dish", found), {})
                              /\ UNCHANGED <<recipe, cooksession, cookresult, attachment, nextpk, inserted, inflight>>
                         ELSE \* ProtectedError from the collector: nothing is deleted
                              /\ response' = Resp(u, "dish-delete", 500, Ret("Dish", found),
                                                  Ret("CookSession", DishProtect(pk)))
                              /\ UNCHANGED <<tables, inflight>>
                    ELSE /\ response' = Resp(u, "dish-delete", 200, Ret("Dish", found), {})
                         /\ UNCHANGED <<tables, inflight>>

\* ---------------------------------------------------------- Cook sessions
\* a form whose dish and recipe choices are every row, of any owner
CookSessionFormValid_any_owner(u, dpk, rpk) ==
    /\ dpk \in Pks(dish)
    /\ rpk = NoPk \/ rpk \in Pks(recipe)

\* CookSessionForm.is_valid: dish is required and must be in
\* Dish.objects.filter(_owned_q(user)); recipe_used is optional and must be
\* in Recipe.objects.filter(_owned_q(user))
CookSessionFormValid(u, dpk, rpk) ==
    /\ dpk \in Pks(Filter(dish, u))
    /\ rpk = NoPk \/ rpk \in Pks(Filter(recipe, u))

\* request.GET.get("when"): absent, one of the four windows, or anything else
NoWhen == ""
Whens == {NoWhen, "today", "week", "month", "past30", "later"}

\* a past window that stops short of today: cooked_on__lt=today
WhenPast30_before_today(qs) == {s \in qs : s.cooked_on >= Today - MonthDays /\ s.cooked_on < Today}

\* when == "past30": qs.filter(cooked_on__gte=today - timedelta(days=30), cooked_on__lte=today)
WhenPast30(qs) == {s \in qs : s.cooked_on >= Today - MonthDays /\ s.cooked_on <= Today}

\* CookSessionListView.get_queryset with no q, meal_type or method parameter
CookSessionListView_get_queryset(u, when) ==
    LET qs == Filter(cooksession, u) IN
    CASE when = "today" -> {s \in qs : s.cooked_on = Today}
      [] when = "week" -> {s \in qs : s.cooked_on > Today /\ s.cooked_on <= Today + WeekDays}
      [] when = "month" -> {s \in qs : s.cooked_on > Today /\ s.cooked_on <= Today + MonthDays}
      [] when = "past30" -> WhenPast30(qs)
      [] OTHER -> qs

\* the response to a list request that carried ?when=
WithWhen(resp, when) ==
    IF when = NoWhen THEN resp ELSE [resp EXCEPT !.ctx = [errors |-> FALSE, when |-> when]]

CookSessionListView(u, when) ==
    /\ Request
    /\ IF u = AnonymousUser
       THEN LoginRequired(u, "cooksession-list")
       ELSE
            /\ /\ response' = WithWhen(Resp(u, "cooksession-list", 200,
                                             Ret("CookSession", CookSessionListView_get_queryset(u, when)),
                                             {}), when)
               /\ UNCHANGED <<tables, inflight>>

CookSessionDetailView(u, pk) ==
    /\ Request
    /\ IF u = AnonymousUser
       THEN LoginRequired(u, "cooksession-detail")
       ELSE
            /\ LET found == Get(Filter(cooksession, u), pk) IN
               /\ response' = IF found = {} THEN Resp(u, "cooksession-detail", 404, {}, {})
                              ELSE Resp(u, "cooksession-detail", 200, Ret("CookSession", found), {})
               /\ UNCHANGED <<tables, inflight>>

CookSessionCreateView(u, method, dpk, rpk, day) ==
    /\ Request
    /\ IF u = AnonymousUser
       THEN LoginRequired(u, "cooksession-add")
       ELSE
            /\ IF method = "POST" /\ CookSessionFormValid(u, dpk, rpk)
               THEN /\ inserted < MaxRows
                    /\ LET obj == Stamp([pk |-> nextpk["CookSession"], created_by |-> NULL, dish |-> dpk,
                                         recipe_used |-> rpk, cooked_on |-> day], u) IN
                       /\ cooksession' = cooksession \cup {obj}
                       /\ nextpk' = Bump("CookSession")
                       /\ inserted' = inserted + 1
                       /\ response' = Resp(u, "cooksession-add", 302, Ret("CookSession", {obj}), {})
                    /\ UNCHANGED <<recipe, dish, cookresult, attachment, inflight>>
               ELSE /\ response' = Resp(u, "cooksession-add", 200, {}, {})
                    /\ UNCHANGED <<tables, inflight>>

CookSessionUpdateView(u, pk, method, dpk, rpk, day) ==
    /\ Request
    /\ IF u = AnonymousUser
       THEN LoginRequired(u, "cooksession-edit")
       ELSE
            /\ LET found == Get(Filter(cooksession, u), pk) IN
               IF found = {}
               THEN /\ response' = Resp(u, "cooksession-edit", 404, {}, {})
                    /\ UNCHANGED <<tables, inflight>>
               ELSE LET old == CHOOSE r \in found : TRUE IN
                    IF method = "POST" /\ CookSessionFormValid(u, dpk, rpk)
                    THEN LET obj == Stamp([old EXCEPT !.dish = dpk, !.recipe_used = rpk, !.cooked_on = day], u) IN
                         /\ cooksession' = (cooksession \ {old}) \cup {obj}
                         /\ response' = Resp(u, "cooksession-edit", 302, Ret("CookSession", {obj}), Stamped("CookSession", old))
                         /\ UNCHANGED <<recipe, dish, cookresult, attachment, nextpk, inserted, inflight>>
                    ELSE /\ response' = Resp(u, "cooksession-edit", 200, Ret("CookSession", {old}), {})
                         /\ UNCHANGED <<tables, inflight>>

\* on_delete=DO_NOTHING: the session goes, its result stays
ResultCascade_none(spk) == {}

\* on_delete=CASCADE of CookResult.cook_session: the results deleted with a session
ResultCascade(spk) == {r \in cookresult : r.cook_session = spk}

CookSessionDeleteView(u, pk, method) ==
    /\ Request
    /\ IF u = AnonymousUser
       THEN LoginRequired(u, "cooksession-delete")
       ELSE
            /\ LET found == Get(Filter(cooksession, u), pk) IN
               IF found = {}
               THEN /\ response' = Resp(u, "cooksession-delete", 404, {}, {})
                    /\ UNCHANGED <<tables, inflight>>
               ELSE IF method = "POST"
                    THEN /\ cooksession' = cooksession \ found
                         /\ cookresult' = cookresult \ ResultCascade(pk)
                         /\ response' = Resp(u, "cooksession-delete", 302, Ret("CookSession", found),
                                             Ret("CookResult", ResultCascade(pk)))
                         /\ UNCHANGED <<recipe, dish, attachment, nextpk, inserted, inflight>>
                    ELSE /\ response' = Resp(u, "cooksession-delete", 200, Ret("CookSession", found), {})
                         /\ UNCHANGED <<tables, inflight>>

\* ----------------------------------------------------------- Cook results
\* a form that runs the validators of overall_rating alone
CookResultFormValid_overall_only(rating) ==
    rating.overall_rating = NoRating
        \/ (MinRating <= rating.overall_rating /\ rating.overall_rating <= MaxRating)

\* CookResultForm.is_valid: each rating is blank, or within the validators
\* MinValueValidator(1), MaxValueValidator(10)
CookResultFormValid(rating) ==
    \A f \in RatingFields : rating[f] = NoRating \/ (MinRating <= rating[f] /\ rating[f] <= MaxRating)

\* a lookup that never finds the row (a create where get_or_create stands)
ResultGet_never(spk) == {}

\* CookResult.objects.get(cook_session=cook_session), the lookup of get_or_create
ResultGet(spk) == {r \in cookresult : r.cook_session = spk}

\* get_or_create that lets the IntegrityError of its insert through
Refetch_none(spk) == {}

\* get_or_create after the IntegrityError of its insert: the lookup again
Refetch(spk) == ResultGet(spk)

\* the row get_or_create inserts: defaults={"created_by": request.user}
NewResult(u, spk) ==
    [pk |-> nextpk["CookResult"], created_by |-> u, cook_session |-> spk,
     overall_rating |-> NoRating, taste_rating |-> NoRating,
     texture_rating |-> NoRating, appearance_rating |-> NoRating]

\* the insert's checks were cook_session a plain ForeignKey: no uniqueness
ResultInsertOk_fk_only(obj) == obj.cook_session \in Pks(cooksession)

\* what the database checks on the insert: the OneToOneField's uniqueness
\* of cook_session, and the foreign key to an existing CookSession
ResultInsertOk(obj) ==
    /\ \A r \in cookresult : r.cook_session # obj.cook_session
    /\ obj.cook_session \in Pks(cooksession)

\* UpdateView.get/post on self._obj, with `base` the table after get_or_create
\* and `lost_to` the row the insert of get_or_create collided with, if any
EditForm(u, obj, base, method, rating, lost_to) ==
    IF method = "POST" /\ CookResultFormValid(rating)
    THEN LET saved == [obj EXCEPT !.overall_rating = rating.overall_rating,
                                  !.taste_rating = rating.taste_rating,
                                  !.texture_rating = rating.texture_rating,
                                  !.appearance_rating = rating.appearance_rating] IN
         /\ cookresult' = (base \ {obj}) \cup {saved}
         /\ response' = WithArgs(Resp(u, "cookresult-edit", 302, Ret("CookResult", {saved}), lost_to),
                                 "", obj.cook_session)
    ELSE /\ cookresult' = base
         /\ response' =
               LET form == WithArgs(Resp(u, "cookresult-edit", 200, Ret("CookResult", {obj}), lost_to),
                                    "", obj.cook_session) IN
               IF method = "POST" THEN WithErrors(form) ELSE form

\* get_or_create after its lookup found no row: insert; on IntegrityError
\* look the row up again, and raise when it is still absent
CreateThenEdit(u, spk, method, rating) ==
    LET obj == NewResult(u, spk) IN
    IF ResultInsertOk(obj)
    THEN /\ nextpk' = Bump("CookResult")
         /\ EditForm(u, obj, cookresult \cup {obj}, method, rating, {})
    ELSE /\ UNCHANGED nextpk
         /\ LET again == Refetch(spk) IN
            IF again # {}
            THEN EditForm(u, CHOOSE r \in again : TRUE, cookresult, method, rating,
                          Ret("CookResult", again))
            ELSE /\ response' = WithArgs(Resp(u, "cookresult-edit", 500, {}, {}), "", spk)
                 /\ UNCHANGED cookresult

\* The whole handler, run without another request in between. dispatch
\* filters by owned_q(request.user) before LoginRequiredMixin.dispatch runs.
CookResultCreateUpdateView(u, spk, method, rating) ==
    /\ Request
    /\ IF u = AnonymousUser
       THEN FilterRaises(u, "cookresult-edit", "", spk)
       ELSE
            /\ UNCHANGED <<recipe, dish, cooksession, attachment, inserted, inflight>>
            /\ LET cook_session == Get(Filter(cooksession, u), spk) IN
               IF cook_session = {}
               THEN /\ response' = WithArgs(Resp(u, "cookresult-edit", 404, {}, {}), "", spk)
                    /\ UNCHANGED <<cookresult, nextpk>>
               ELSE LET got == ResultGet(spk) IN
                    IF got # {}
                    THEN /\ EditForm(u, CHOOSE r \in got : TRUE, cookresult, method, rating, {})
                         /\ UNCHANGED nextpk
                    ELSE CreateThenEdit(u, spk, method, rating)

\* The handler up to the lookup of get_or_create; when the lookup finds no
\* row the request stays in flight until its insert reaches the database.
EditResultLookup(u, spk, method, rating) ==
    /\ Request
    /\ IF u = AnonymousUser
       THEN FilterRaises(u, "cookresult-edit", "", spk)
       ELSE
            /\ UNCHANGED <<recipe, dish, cooksession, attachment, nextpk, inserted>>
            /\ LET cook_session == Get(Filter(cooksession, u), spk)
                   req == [user |-> u, session |-> spk, method |-> method, rating |-> rating] IN
               IF cook_session = {}
               THEN /\ response' = WithArgs(Resp(u, "cookresult-edit", 404, {}, {}), "", spk)
                    /\ UNCHANGED <<cookresult, inflight>>
               ELSE LET got == ResultGet(spk) IN
                    IF got # {}
                    THEN /\ EditForm(u, CHOOSE r \in got : TRUE, cookresult, method, rating, {})
                         /\ UNCHANGED inflight
                    ELSE /\ Cardinality(inflight) < MaxInflight
                         /\ req \notin inflight
                         /\ inflight' = inflight \cup {req}
                         /\ UNCHANGED <<cookresult, response>>

\* The rest of an in-flight request: the insert of get_or_create and the form.
EditResultInsert(req) ==
    /\ Request
    /\ req \in inflight
    /\ inflight' = inflight \ {req}
    /\ UNCHANGED <<recipe, dish, cooksession, attachment, inserted>>
    /\ CreateThenEdit(req.user, req.session, req.method, req.rating)

CookResultDetailView(u, pk) ==
    /\ Request
    /\ IF u = AnonymousUser
       THEN LoginRequired(u, "cookresult-detail")
       ELSE
            /\ LET found == Get(Filter(cookresult, u), pk) IN
               /\ response' = IF found = {} THEN Resp(u, "cookresult-detail", 404, {}, {})
                              ELSE Resp(u, "cookresult-detail", 200, Ret("CookResult", found), {})
               /\ UNCHANGED <<tables, inflight>>

\* ------------------------------------------------------------ Attachments
\* an allow-list that also lets the attachment model Note through
ALLOWED_TARGET_MODELS_with_note ==
    [k \in {"recipe", "dish", "cooksession", "cookresult", "note"} |->
        CASE k = "recipe" -> "Recipe"
          [] k = "dish" -> "Dish"
          [] k = "cooksession" -> "CookSession"
          [] k = "cookresult" -> "CookResult"
          [] k = "note" -> "Note"]

ALLOWED_TARGET_MODELS ==
    [k \in {"recipe", "dish", "cooksession", "cookresult"} |->
        CASE k = "recipe" -> "Recipe"
          [] k = "dish" -> "Dish"
          [] k = "cooksession" -> "CookSession"
          [] k = "cookresult" -> "CookResult"]

\* model.objects
Objects(model) ==
    CASE model = "Recipe" -> recipe
      [] model = "Dish" -> dish
      [] model = "CookSession" -> cooksession
      [] model = "CookResult" -> cookresult
      [] OTHER -> attachment[model]

\* a target lookup by pk alone, without .filter(owned_q(user))
get_target_unfiltered(u, model_key, pk) ==
    IF model_key \notin DOMAIN ALLOWED_TARGET_MODELS
    THEN {}
    ELSE Get(Objects(ALLOWED_TARGET_MODELS[model_key]), pk)

\* _get_target_or_404: the target rows; none means Http404
get_target_or_404(u, model_key, pk) ==
    IF model_key \notin DOMAIN ALLOWED_TARGET_MODELS
    THEN {}
    ELSE Get(Filter(Objects(ALLOWED_TARGET_MODELS[model_key]), u), pk)

\* Http404 raised by TargetContextMixin.dispatch, before the view's own code
Http404(u, view, model_key, pk) == WithArgs(Resp(u, view, 404, {}, {}), model_key, pk)

\* the pks a /target/ URL may name
TargetPks(model_key) ==
    IF model_key \in DOMAIN ALLOWED_TARGET_MODELS
    THEN UrlPks(ALLOWED_TARGET_MODELS[model_key])
    ELSE {1}

\* the name of a file as a sequence of characters; no file, and a form
\* that carries no new file
NoFile == <<>>
NoUpload == <<>>

\* the name of the file uploaded with the pdf form of most requests
DefaultUpload == <<"a">>

\* cooking_companion_pdf_upload_to: "cooking-companion/pdfs/<uuid>/<filename>"
\* with one character for "cooking-companion", one for "pdfs/<uuid>"
cooking_companion_pdf_upload_to(filename) == <<"c", "/", "u", "/">> \o filename

\* name.split("/")[-1]
RECURSIVE LastComponent(_)
LastComponent(name) ==
    IF name = <<>> THEN <<>>
    ELSE IF name[Len(name)] = "/" THEN <<>>
    ELSE LastComponent(SubSeq(name, 1, Len(name) - 1)) \o <<name[Len(name)]>>

\* a save that derives original_filename from the file on every save
PDFDocument_save_always(doc, upload) ==
    LET name == IF upload = NoUpload THEN doc.pdf ELSE upload IN
    [doc EXCEPT !.original_filename = IF name # NoFile THEN LastComponent(name) ELSE @,
                !.pdf = IF upload = NoUpload THEN @ ELSE cooking_companion_pdf_upload_to(upload)]

\* PDFDocument.save with `upload` the file the form put on the instance:
\* self.pdf.name is the uploaded name until super().save() stores the file
\* under upload_to
PDFDocument_save(doc, upload) ==
    LET name == IF upload = NoUpload THEN doc.pdf ELSE upload IN
    [doc EXCEPT !.original_filename = IF name # NoFile /\ @ = <<>> THEN LastComponent(name) ELSE @,
                !.pdf = IF upload = NoUpload THEN @ ELSE cooking_companion_pdf_upload_to(upload)]

\* obj.save() of an attachment built by a form: PDFDocument overrides save
ModelSave(model, obj, upload) ==
    IF model = "PDFDocument"
    THEN PDFDocument_save([pk |-> obj.pk, created_by |-> obj.created_by,
                           content_type |-> obj.content_type, object_id |-> obj.object_id,
                           pdf |-> NoFile, original_filename |-> <<>>], upload)
    ELSE obj

\* the response of a request that carried a file
WithUpload(resp, upload) ==
    IF upload = NoUpload THEN resp ELSE [resp EXCEPT !.ctx = [errors |-> FALSE, upload |-> upload]]

\* Target<X>CreateView: TargetContextMixin.dispatch, then CreateView with
\* form_valid. The mixin's dispatch looks the target up before it calls
\* LoginRequiredMixin.dispatch.
TargetCreate(model, view, u, model_key, pk, method, valid, upload) ==
    /\ Request
    /\ IF u = AnonymousUser
       THEN IF model_key \notin DOMAIN ALLOWED_TARGET_MODELS
            THEN /\ response' = Http404(u, view, model_key, pk)
                 /\ UNCHANGED <<tables, inflight>>
            ELSE FilterRaises(u, view, model_key, pk)
       ELSE
            /\ LET target == get_target_or_404(u, model_key, pk) IN
               /\ UNCHANGED <<recipe, dish, cooksession, cookresult, inflight>>
               /\ IF target = {}
                  THEN /\ response' = Http404(u, view, model_key, pk)
                       /\ UNCHANGED <<attachment, nextpk, inserted>>
                  ELSE IF method = "POST" /\ valid
                       THEN LET target_obj == CHOOSE t \in target : TRUE
                                obj == ModelSave(model,
                                                 Stamp([pk |-> nextpk[model], created_by |-> NULL,
                                                        content_type |-> ALLOWED_TARGET_MODELS[model_key],
                                                        object_id |-> ToString(target_obj.pk)], u),
                                                 upload) IN
                            /\ inserted < MaxRows
                            /\ inserted' = inserted + 1
                            /\ nextpk' = Bump(model)
                            /\ attachment' = [attachment EXCEPT ![model] = @ \cup {obj}]
                            /\ response' = WithUpload(WithArgs(Resp(u, view, 302, Ret(model, {obj}), {}),
                                                               model_key, pk), upload)
                       ELSE /\ response' = WithArgs(Resp(u, view, 200, {}, {}), model_key, pk)
                            /\ UNCHANGED <<attachment, nextpk, inserted>>

TargetNoteCreateView(u, model_key, pk, method, valid) ==
    TargetCreate("Note", "target-note-add", u, model_key, pk, method, valid, NoUpload)

TargetReferenceURLCreateView(u, model_key, pk, method, valid) ==
    TargetCreate("ReferenceURL", "target-url-add", u, model_key, pk, method, valid, NoUpload)

TargetTrackedImageCreateView(u, model_key, pk, method, valid) ==
    TargetCreate("TrackedImage", "target-image-add", u, model_key, pk, method, valid, NoUpload)

\* the pdf field is required: a valid form carries an uploaded file
TargetPDFDocumentCreateView(u, model_key, pk, method, valid, upload) ==
    TargetCreate("PDFDocument", "target-pdf-add", u, model_key, pk, method, valid, upload)

\* a filter on object_id alone, without content_type
AttachedTo_any_type(model, ct, oid, u) ==
    {a \in Filter(attachment[model], u) : a.object_id = oid}

\* Model.objects.filter(content_type=ct, object_id=oid).filter(owned_q(user))
AttachedTo(model, ct, oid, u) ==
    {a \in Filter(attachment[model], u) : a.content_type = ct /\ a.object_id = oid}

TargetDetailView(u, model_key, pk) ==
    /\ Request
    /\ IF u = AnonymousUser
       THEN IF model_key \notin DOMAIN ALLOWED_TARGET_MODELS
            THEN /\ response' = Http404(u, "target-detail", model_key, pk)
                 /\ UNCHANGED <<tables, inflight>>
            ELSE FilterRaises(u, "target-detail", model_key, pk)
       ELSE
            /\ LET target == get_target_or_404(u, model_key, pk) IN
               /\ UNCHANGED <<tables, inflight>>
               /\ IF target = {}
                  THEN response' = Http404(u, "target-detail", model_key, pk)
                  ELSE LET ct == ALLOWED_TARGET_MODELS[model_key]
                           oid == ToString((CHOOSE t \in target : TRUE).pk) IN
                       response' = WithArgs(Resp(u, "target-detail", 200,
                                        Ret(ct, target)
                                        \cup Ret("Note", AttachedTo("Note", ct, oid, u))
                                        \cup Ret("ReferenceURL", AttachedTo("ReferenceURL", ct, oid, u))
                                        \cup Ret("TrackedImage", AttachedTo("TrackedImage", ct, oid, u))
                                        \cup Ret("PDFDocument", AttachedTo("PDFDocument", ct, oid, u)),
                                        {}), model_key, pk)

\* -------------------------------------------------------------- Dashboard
\* the model rows of the context: recent_sessions, recent_recipes, popular_dishes
\* Model.objects.filter(owned_q(user)).count()
Count(model, u) == Cardinality(Filter(Objects(model), u))

\* order_by("cooked_on", "created_at"): the oldest session first
Before_ascending(a, b) == a.cooked_on < b.cooked_on \/ (a.cooked_on = b.cooked_on /\ a.pk < b.pk)

\* order_by("-cooked_on", "-created_at"): a comes before b. created_at is
\* the insert time, so the later insert has the higher pk.
Before(a, b) == a.cooked_on > b.cooked_on \/ (a.cooked_on = b.cooked_on /\ a.pk > b.pk)

\* the rows of a queryset in its order
RECURSIVE Ordered(_)
Ordered(qs) ==
    IF qs = {} THEN <<>>
    ELSE LET first == CHOOSE a \in qs : \A b \in qs \ {a} : Before(a, b) IN
         <<first>> \o Ordered(qs \ {first})

\* qs[:n]
Slice(seq, n) == SubSeq(seq, 1, IF Len(seq) < n THEN Len(seq) ELSE n)

\* a window that starts on today: cooked_on__gte=today
Upcoming_from_today(qs, days) == {s \in qs : s.cooked_on >= Today /\ s.cooked_on <= Today + days}

\* session_qs.filter(cooked_on__gt=today, cooked_on__lte=today + timedelta(days))
Upcoming(qs, days) == {s \in qs : s.cooked_on > Today /\ s.cooked_on <= Today + days}

\* session_qs.filter(cooked_on__gte=today - timedelta(days), cooked_on__lte=today)
Past(qs, days) == {s \in qs : s.cooked_on >= Today - days /\ s.cooked_on <= Today}

\* the place of a dish name in alphabetical order
NameRank(name) == CASE name = "" -> 0 [] name = "a" -> 1 [] name = "b" -> 2 [] OTHER -> 3

\* order_by("-session_count", "name"): a comes before b; rows that tie on
\* both come out in the order of their ids
PopularBefore(a, b) ==
    \/ a.session_count > b.session_count
    \/ a.session_count = b.session_count /\ NameRank(a.dish.name) < NameRank(b.dish.name)
    \/ a.session_count = b.session_count /\ a.dish.name = b.dish.name /\ a.dish.pk < b.dish.pk

RECURSIVE PopularOrdered(_)
PopularOrdered(qs) ==
    IF qs = {} THEN <<>>
    ELSE LET first == CHOOSE a \in qs : \A b \in qs \ {a} : PopularBefore(a, b) IN
         <<first>> \o PopularOrdered(qs \ {first})

\* dish_qs.annotate(session_count=Count("cook_sessions")): the sessions of
\* the user only
annotate_own_sessions(dish_qs, u) ==
    {[dish |-> d, session_count |-> Cardinality({s \in Filter(cooksession, u) : s.dish = d.pk})] :
        d \in dish_qs}

\* dish_qs.annotate(session_count=Count("cook_sessions")): Count follows the
\* reverse foreign key over the whole CookSession table
annotate(dish_qs, u) == {[dish |-> d, session_count |-> session_count(d)] : d \in dish_qs}

\* recipe_qs[:8] and the [:8] of popular_dishes
ShortLimit == 8

\* CookResult.outcome of every result: the field's default (the result form
\* is posted with it)
Outcome == "experiment"

\* .values("outcome").annotate(count=Count("id")).order_by("-count")
top_outcomes(result_qs) ==
    IF result_qs = {} THEN <<>> ELSE <<[outcome |-> Outcome, count |-> Cardinality(result_qs)]>>

\* ctx["counts"], ctx["recent_sessions"], ctx["session_buckets"],
\* ctx["recent_recipes"] (as a set: the rows carry no updated_at, and there
\* are never more than 8), ctx["popular_dishes"], ctx["top_outcomes"]
DashboardContext(u) ==
    LET session_qs == Filter(cooksession, u) IN
    [errors |-> FALSE,
     counts |-> [recipes |-> Count("Recipe", u), dishes |-> Count("Dish", u),
                 sessions |-> Count("CookSession", u), results |-> Count("CookResult", u),
                 images |-> Count("TrackedImage", u), notes |-> Count("Note", u),
                 urls |-> Count("ReferenceURL", u), pdfs |-> Count("PDFDocument", u)],
     recent_sessions |-> Slice(Ordered(session_qs), RecentLimit),
     session_buckets |-> [today |-> Cardinality({s \in session_qs : s.cooked_on = Today}),
                          week |-> Cardinality(Upcoming(session_qs, WeekDays)),
                          month |-> Cardinality(Upcoming(session_qs, MonthDays)),
                          past30 |-> Cardinality(Past(session_qs, MonthDays))],
     recent_recipes |-> IF Cardinality(Filter(recipe, u)) <= ShortLimit THEN Filter(recipe, u) ELSE {},
     popular_dishes |-> Slice(PopularOrdered(annotate(Filter(dish, u), u)), ShortLimit),
     top_outcomes |-> top_outcomes(Filter(cookresult, u))]

DashboardView(u) ==
    /\ Request
    /\ IF u = AnonymousUser
       THEN LoginRequired(u, "dashboard")
       ELSE
            /\ /\ response' = [Resp(u, "dashboard", 200,
                                    Ret("CookSession", Filter(cooksession, u))
                                    \cup Ret("Recipe", Filter(recipe, u))
                                    \cup Ret("Dish", Filter(dish, u)), {})
                                   EXCEPT !.ctx = DashboardContext(u)]
               /\ UNCHANGED <<tables, inflight>>

\* ------------------------------------------------------------------- Next
\* what a form may name as a foreign key: no row, or a pk of the table
FkInputs(model) == {NoPk} \cup (1 .. (nextpk[model] - 1))

Reads ==
    \/ \E u \in Users : DashboardView(u)
    \/ \E u \in Users : RecipeListView(u)
    \/ \E u \in Users, pk \in UrlPks("Recipe") : RecipeDetailView(u, pk)
    \/ \E u \in Users : DishListView(u)
    \/ \E u \in Users, pk \in UrlPks("Dish") : DishDetailView(u, pk)
    \/ \E u \in Users : CookSessionListView(u, NoWhen)
    \/ \E u \in Users, pk \in UrlPks("CookSession") : CookSessionDetailView(u, pk)
    \/ \E u \in Users, pk \in UrlPks("CookResult") : CookResultDetailView(u, pk)
    \/ \E u \in Users, k \in ModelKeys : \E pk \in TargetPks(k) : TargetDetailView(u, k, pk)

Writes ==
    \/ \E u \in Users, m \in Methods : \E t \in FormInputs(m, Titles, "") : RecipeCreateView(u, m, t)
    \/ \E u \in Users, pk \in UrlPks("Recipe"), m \in Methods :
          \E t \in FormInputs(m, Titles, "") : RecipeUpdateView(u, pk, m, t)
    \/ \E u \in Users, pk \in UrlPks("Recipe"), m \in Methods : RecipeDeleteView(u, pk, m)
    \/ \E u \in Users, m \in Methods :
          \E n \in FormInputs(m, Texts, ""), r \in FormInputs(m, FkInputs("Recipe"), NoPk) :
             DishCreateView(u, m, n, r)
    \/ \E u \in Users, pk \in UrlPks("Dish"), m \in Methods :
          \E n \in FormInputs(m, Texts, ""), r \in FormInputs(m, FkInputs("Recipe"), NoPk) :
             DishUpdateView(u, pk, m, n, r)
    \/ \E u \in Users, pk \in UrlPks("Dish"), m \in Methods : DishDeleteView(u, pk, m)
    \/ \E u \in Users, m \in Methods :
          \E d \in FormInputs(m, FkInputs("Dish"), NoPk), r \in FormInputs(m, FkInputs("Recipe"), NoPk) :
             \E day \in FormInputs(m, FormDates, Today) : CookSessionCreateView(u, m, d, r, day)
    \/ \E u \in Users, pk \in UrlPks("CookSession"), m \in Methods :
          \E d \in FormInputs(m, FkInputs("Dish"), NoPk), r \in FormInputs(m, FkInputs("Recipe"), NoPk) :
             \E day \in FormInputs(m, FormDates, Today) : CookSessionUpdateView(u, pk, m, d, r, day)
    \/ \E u \in Users, pk \in UrlPks("CookSession"), m \in Methods : CookSessionDeleteView(u, pk, m)
    \/ \E u \in Users, k \in ModelKeys, m \in Methods :
          \E pk \in TargetPks(k), v \in FormInputs(m, BOOLEAN, FALSE) :
             \/ TargetNoteCreateView(u, k, pk, m, v)
             \/ TargetReferenceURLCreateView(u, k, pk, m, v)
             \/ TargetTrackedImageCreateView(u, k, pk, m, v)
             \/ TargetPDFDocumentCreateView(u, k, pk, m, v, DefaultUpload)

\* every request runs start to finish before the next one
Next ==
    \/ Deliver
    \/ Reads
    \/ Writes
    \/ \E u \in Users, spk \in UrlPks("CookSession"), m \in Methods :
          \E r \in FormInputs(m, RatingInputs, BlankRatings) : CookResultCreateUpdateView(u, spk, m, r)

Spec == Init /\ [][Next]_vars

\* Edit-result requests overlap between lookup and insert, while the
\* session they name is edited or deleted and results are read.
NextRace ==
    \/ Deliver
    \/ \E u \in Users, spk \in UrlPks("CookSession"), m \in Methods :
          \E r \in FormInputs(m, RatingInputs, BlankRatings) : EditResultLookup(u, spk, m, r)
    \/ \E req \in inflight : EditResultInsert(req)
    \/ \E u \in Users, pk \in UrlPks("CookSession"), m \in Methods :
          \E d \in FormInputs(m, FkInputs("Dish"), NoPk), r \in FormInputs(m, FkInputs("Recipe"), NoPk) :
             \E day \in FormInputs(m, FormDates, Today) : CookSessionUpdateView(u, pk, m, d, r, day)
    \/ \E u \in Users, pk \in UrlPks("CookSession"), m \in Methods : CookSessionDeleteView(u, pk, m)
    \/ \E u \in Users, pk \in UrlPks("CookResult") : CookResultDetailView(u, pk)

SpecRace == Init /\ [][NextRace]_vars

\* Requests without an authenticated user to every route, while users
\* create the rows those requests name.
Everyone == Users \cup {AnonymousUser}

NextAnon ==
    \/ Deliver
    \/ DashboardView(AnonymousUser)
    \/ RecipeListView(AnonymousUser)
    \/ \E pk \in UrlPks("Recipe") : RecipeDetailView(AnonymousUser, pk)
    \/ \E u \in Everyone, m \in Methods : \E t \in FormInputs(m, Titles, "") : RecipeCreateView(u, m, t)
    \/ \E pk \in UrlPks("Recipe"), m \in Methods :
          \E t \in FormInputs(m, Titles, "") : RecipeUpdateView(AnonymousUser, pk, m, t)
    \/ \E pk \in UrlPks("Recipe"), m \in Methods : RecipeDeleteView(AnonymousUser, pk, m)
    \/ DishListView(AnonymousUser)
    \/ \E pk \in UrlPks("Dish") : DishDetailView(AnonymousUser, pk)
    \/ \E u \in Everyone, m \in Methods :
          \E n \in FormInputs(m, Texts, ""), r \in FormInputs(m, FkInputs("Recipe"), NoPk) :
             DishCreateView(u, m, n, r)
    \/ \E pk \in UrlPks("Dish"), m \in Methods :
          \E n \in FormInputs(m, Texts, ""), r \in FormInputs(m, FkInputs("Recipe"), NoPk) :
             DishUpdateView(AnonymousUser, pk, m, n, r)
    \/ \E pk \in UrlPks("Dish"), m \in Methods : DishDeleteView(AnonymousUser, pk, m)
    \/ CookSessionListView(AnonymousUser, NoWhen)
    \/ \E pk \in UrlPks("CookSession") : CookSessionDetailView(AnonymousUser, pk)
    \/ \E u \in Everyone, m \in Methods :
          \E d \in FormInputs(m, FkInputs("Dish"), NoPk), r \in FormInputs(m, FkInputs("Recipe"), NoPk) :
             \E day \in FormInputs(m, FormDates, Today) : CookSessionCreateView(u, m, d, r, day)
    \/ \E pk \in UrlPks("CookSession"), m \in Methods :
          \E d \in FormInputs(m, FkInputs("Dish"), NoPk), r \in FormInputs(m, FkInputs("Recipe"), NoPk) :
             \E day \in FormInputs(m, FormDates, Today) :
                CookSessionUpdateView(AnonymousUser, pk, m, d, r, day)
    \/ \E pk \in UrlPks("CookSession"), m \in Methods : CookSessionDeleteView(AnonymousUser, pk, m)
    \/ \E u \in Everyone, spk \in UrlPks("CookSession"), m \in Methods :
          \E r \in FormInputs(m, RatingInputs, BlankRatings) : CookResultCreateUpdateView(u, spk, m, r)
    \/ \E pk \in UrlPks("CookResult") : CookResultDetailView(AnonymousUser, pk)
    \/ \E k \in ModelKeys : \E pk \in TargetPks(k) : TargetDetailView(AnonymousUser, k, pk)
    \/ \E k \in ModelKeys, m \in Methods :
          \E pk \in TargetPks(k), v \in FormInputs(m, BOOLEAN, FALSE) :
             \/ TargetNoteCreateView(AnonymousUser, k, pk, m, v)
             \/ TargetReferenceURLCreateView(AnonymousUser, k, pk, m, v)
             \/ TargetTrackedImageCreateView(AnonymousUser, k, pk, m, v)
             \/ TargetPDFDocumentCreateView(AnonymousUser, k, pk, m, v, DefaultUpload)

SpecAnon == Init /\ [][NextAnon]_vars

\* ------------------------------------------------- overlapping update forms
\* UpdateView.post takes no lock: get_object reads the row, form_valid saves
\* the instance it read. Between the two another request may save the row.
\* a save with update_fields: the form's fields only, created_by as stored
save_form_fields_only(qs, obj) ==
    {r \in qs : r.pk # obj.pk}
    \cup {[obj EXCEPT !.created_by = IF \E r \in qs : r.pk = obj.pk
                                     THEN (CHOOSE r \in qs : r.pk = obj.pk).created_by
                                     ELSE @]}

\* Model.save of an instance with a pk: UPDATE every field of the row with
\* that pk, INSERT the row when the UPDATE matched none
save(qs, obj) == {r \in qs : r.pk # obj.pk} \cup {obj}

\* RecipeUpdateView.post up to get_object: the row as read stays with the
\* request until its form_valid runs
RecipeUpdateGetObject(u, pk, title) ==
    /\ Request
    /\ LET found == Get(Filter(recipe, u), pk) IN
       IF found = {}
       THEN /\ response' = Resp(u, "recipe-edit", 404, {}, {})
            /\ UNCHANGED <<tables, inflight>>
       ELSE LET req == [user |-> u, obj |-> CHOOSE r \in found : TRUE, title |-> title] IN
            /\ RecipeFormValid(title)
            /\ Cardinality(inflight) < MaxInflight
            /\ req \notin inflight
            /\ inflight' = inflight \cup {req}
            /\ UNCHANGED <<tables, response>>

\* the rest of RecipeUpdateView.post: form_valid on the instance read before
RecipeUpdateFormValid(req) ==
    /\ Request
    /\ req \in inflight
    /\ inflight' = inflight \ {req}
    /\ LET obj == Stamp([req.obj EXCEPT !.title = req.title], req.user) IN
       /\ recipe' = save(recipe, obj)
       /\ response' = Resp(req.user, "recipe-edit", 302, Ret("Recipe", {obj}),
                           Stamped("Recipe", req.obj)
                           \cup Ret("Recipe", {r \in recipe : r.pk = obj.pk /\ r # req.obj}))
    /\ UNCHANGED <<dish, cooksession, cookresult, attachment, nextpk, inserted>>

NextOverlap ==
    \/ Deliver
    \/ \E u \in Users, pk \in UrlPks("Recipe"), t \in Titles \cup {"b"} : RecipeUpdateGetObject(u, pk, t)
    \/ \E req \in inflight : RecipeUpdateFormValid(req)
    \/ \E u \in Users, m \in Methods : \E t \in FormInputs(m, Titles, "") : RecipeCreateView(u, m, t)
    \/ \E u \in Users, pk \in UrlPks("Recipe"), m \in Methods : RecipeDeleteView(u, pk, m)
    \/ \E u \in Users : RecipeListView(u)

SpecOverlap == Init /\ [][NextOverlap]_vars

\* ----------------------------------------------- the dashboard's database
\* The dashboard read over databases that hold many sessions: up to
\* MaxSessions of them, every other one without an owner, all cooked on one
\* day but for one session of either user cooked on an edge of a window.
BaseDates == {Today - 1, Today, Today + 1}

DashSession(i, owner, day) ==
    [pk |-> i, created_by |-> owner, dish |-> 1, recipe_used |-> NoPk, cooked_on |-> day]

InitDash ==
    \E n \in {0, 1, MaxSessions - 1, MaxSessions}, base \in BaseDates, d \in Dates, o \in Users :
        \E k \in {IF n = 0 THEN 0 ELSE 1, n} :
            /\ recipe = {}
            /\ dish = {SeedDish(NoPk)}
            /\ cooksession = {DashSession(i, IF i = k THEN o ELSE IF i % 2 = 1 THEN "u1" ELSE NULL,
                                          IF i = k THEN d ELSE base) : i \in 1 .. n}
            /\ cookresult = {}
            /\ attachment = [m \in AttachModels |-> {}]
            /\ nextpk = [m \in Models |->
                            CASE m = "Dish" -> 2 [] m = "CookSession" -> n + 1 [] OTHER -> 1]
            /\ inserted = 0
            /\ response = NoResponse
            /\ inflight = {}

NextDash ==
    \/ Deliver
    \/ \E u \in Users : DashboardView(u)
    \/ \E u \in Users, when \in Whens : CookSessionListView(u, when)
    \/ \E u \in Users : RecipeCreateView(u, "POST", "a")
    \/ \E u \in Users : DishCreateView(u, "POST", "a", NoPk)
    \/ \E u \in Users, day \in FormDates : CookSessionCreateView(u, "POST", 1, NoPk, day)
    \/ \E u \in Users : CookResultCreateUpdateView(u, 1, "GET", BlankRatings)
    \/ \E u \in Users :
          \/ TargetNoteCreateView(u, "dish", 1, "POST", TRUE)
          \/ TargetReferenceURLCreateView(u, "dish", 1, "POST", TRUE)
          \/ TargetTrackedImageCreateView(u, "dish", 1, "POST", TRUE)
          \/ TargetPDFDocumentCreateView(u, "dish", 1, "POST", TRUE, DefaultUpload)

SpecDash == InitDash /\ [][NextDash]_vars

\* ------------------------------------------------- the PDF documents saved
\* PDFDocument.save over documents saved more than once: the attach form
\* saves a new document, the admin change form of PDFDocumentAdmin saves an
\* existing one, with a new file or with the file it has.
\* An uploaded file's name is a base name (UploadedFile strips directories).
UploadNames == UNION {[1 .. n -> {"a", "b"}] : n \in 1 .. MaxNameLen}

\* rows stored before original_filename was derived, or without a file
LegacyPdfs ==
    {[pk |-> 1, created_by |-> NULL, content_type |-> "Recipe", object_id |-> "1",
      pdf |-> f, original_filename |-> <<>>] :
        f \in {NoFile, cooking_companion_pdf_upload_to(<<"a">>), <<"a", "/", "b">>}}

\* ModelAdmin change view of PDFDocumentAdmin: every field but the readonly
\* ones is on the form, save_model calls obj.save(); the form is posted with
\* a new file or none and the other fields as they are
PDFDocumentAdmin(u, pk, upload) ==
    /\ Request
    /\ UNCHANGED <<recipe, dish, cooksession, cookresult, nextpk, inserted, inflight>>
    /\ LET found == Get(attachment["PDFDocument"], pk) IN
       IF found = {}
       THEN /\ response' = Resp(u, "admin-pdf-change", 404, {}, {})
            /\ UNCHANGED attachment
       ELSE LET doc == CHOOSE d \in found : TRUE
                obj == PDFDocument_save(doc, upload) IN
            /\ attachment' = [attachment EXCEPT !["PDFDocument"] = (@ \ {doc}) \cup {obj}]
            /\ response' = WithUpload(Resp(u, "admin-pdf-change", 302, Ret("PDFDocument", {obj}),
                                           Ret("PDFDocument", {doc})), upload)

InitPdf ==
    \E seed \in {{}} \cup {{d} : d \in LegacyPdfs} :
        /\ recipe = {SeedRecipe}
        /\ dish = {}
        /\ cooksession = {}
        /\ cookresult = {}
        /\ attachment = [m \in AttachModels |-> IF m = "PDFDocument" THEN seed ELSE {}]
        /\ nextpk = [m \in Models |->
                        CASE m = "Recipe" -> 2 [] m = "PDFDocument" -> Cardinality(seed) + 1 [] OTHER -> 1]
        /\ inserted = 0
        /\ response = NoResponse
        /\ inflight = {}

NextPdf ==
    \/ Deliver
    \/ \E u \in Users, f \in UploadNames : TargetPDFDocumentCreateView(u, "recipe", 1, "POST", TRUE, f)
    \/ \E u \in Users, pk \in UrlPks("PDFDocument"), f \in UploadNames \cup {NoUpload} :
          PDFDocumentAdmin(u, pk, f)
    \/ \E u \in Users : TargetDetailView(u, "recipe", 1)

SpecPdf == InitPdf /\ [][NextPdf]_vars

\* ------------------------------------------------------------- properties
AttachViews == {"target-note-add", "target-url-add", "target-image-add", "target-pdf-add"}
TargetViews == AttachViews \cup {"target-detail"}
UpdateViews == {"recipe-edit", "dish-edit", "cooksession-edit"}
AllowedKeys == {"recipe", "dish", "cooksession", "cookresult"}

\* the row of `model` with this pk that `u` owns or that nobody owns
VisibleRows(model, pk, u) ==
    {t \in Objects(model) : t.pk = pk /\ (t.created_by = u \/ t.created_by = NULL)}

\* C1: read isolation. Every row a response returns to a user is owned by
\* that user or by nobody: no list, detail, edit, edit-result, target
\* aggregate or dashboard response hands user B a row whose owner is A # B.
ReadIsolation ==
    \A x \in response.rows : x.row.created_by \in {response.user, NULL}

\* C2: write isolation. A row owned by user A is changed or deleted only by
\* a request of A: a step that answers another user leaves the row as it is.
WriteIsolation ==
    [][\A m \in Models : \A r \in Objects(m) :
          (r.created_by \in Users /\ r \notin Objects(m)') => response'.user = r.created_by]_vars

\* C3 as stated: a row whose owner is null is still returned by the
\* ownership-filtered queries of every user after any step that keeps it.
UnownedStaysVisible ==
    [][\A m \in Models : \A r \in Objects(m) :
          r.created_by = NULL =>
              \A r2 \in Objects(m)' : r2.pk = r.pk => \A u \in Users : r2 \in Filter(Objects(m)', u)]_vars

\* C3: a row whose owner is null is returned to every user who lists its
\* table, opens its target page or opens the result form of a session; and
\* its owner stays null under every step but a saved update form of a
\* Recipe, Dish or CookSession, which sets its owner to the requesting user.
UnownedVisibleUntilStamped ==
    [][/\ \A m \in Models : \A r \in Objects(m) : \A r2 \in Objects(m)' :
             (r.created_by = NULL /\ r2.pk = r.pk /\ r2.created_by # NULL) =>
                 /\ response'.view \in UpdateViews
                 /\ response'.status = 302
                 /\ r2.created_by = response'.user
                 /\ response'.rows = {[model |-> m, row |-> r2]}
       /\ response'.view = "recipe-list" =>
             \A r \in recipe' : r.created_by = NULL => [model |-> "Recipe", row |-> r] \in response'.rows
       /\ response'.view = "dish-list" =>
             \A r \in dish' : r.created_by = NULL => [model |-> "Dish", row |-> r] \in response'.rows
       /\ response'.view = "cooksession-list" =>
             \A r \in cooksession' : r.created_by = NULL =>
                 [model |-> "CookSession", row |-> r] \in response'.rows
       /\ (response'.view = "target-detail" /\ response'.args.key \in AllowedKeys) =>
             \A t \in Objects(ALLOWED_TARGET_MODELS[response'.args.key]) :
                 (t.pk = response'.args.pk /\ t.created_by = NULL) =>
                     /\ response'.status = 200
                     /\ [model |-> ALLOWED_TARGET_MODELS[response'.args.key], row |-> t] \in response'.rows
       /\ response'.view = "cookresult-edit" =>
             \A t \in cooksession :
                 (t.pk = response'.args.pk /\ t.created_by = NULL) => response'.status \in {200, 302}
      ]_vars

\* an update form saved by a user stamped that user on a row nobody owned
UnownedRowStamped ==
    /\ response.view \in UpdateViews
    /\ response.status = 302
    /\ \E x \in response.side : x.row.created_by = NULL
    /\ \E x \in response.rows : x.row.created_by = response.user

\* C4: a request to an attach endpoint or to the target page whose model_key
\* is outside recipe, dish, cooksession, cookresult is answered 404 and
\* leaves the Note, ReferenceURL, TrackedImage and PDFDocument tables as they were.
UnknownKeyNotFound ==
    [][(response'.view \in TargetViews /\ response'.args.key \notin AllowedKeys) =>
          /\ response'.status = 404
          /\ attachment' = attachment]_vars

\* an attach endpoint answered 404 to a model_key outside the allow-list
UnknownKeyRefused ==
    /\ response.view \in AttachViews
    /\ response.args.key \notin AllowedKeys
    /\ response.status = 404
    /\ \A m \in AttachModels : attachment[m] = {}

\* C5: an attach request with an allowed model_key whose target row is
\* missing or owned by another user is answered 404 and creates no row; the
\* attachment tables change only by one new row of the endpoint's model,
\* bound to a target the requester owns or nobody owns.
AttachOnlyToVisibleTarget ==
    [][/\ (response'.view \in AttachViews /\ response'.args.key \in AllowedKeys) =>
             LET visible == VisibleRows(ALLOWED_TARGET_MODELS[response'.args.key],
                                        response'.args.pk, response'.user) IN
             /\ visible = {} => (response'.status = 404 /\ attachment' = attachment)
             /\ visible # {} => response'.status \in {200, 302}
       /\ attachment' # attachment =>
             /\ response'.view \in AttachViews
             /\ response'.status = 302
             /\ response'.args.key \in AllowedKeys
             /\ VisibleRows(ALLOWED_TARGET_MODELS[response'.args.key],
                            response'.args.pk, response'.user) # {}
             /\ \E m \in AttachModels : \E a \in attachment'[m] :
                   /\ attachment' = [attachment EXCEPT ![m] = @ \cup {a}]
                   /\ a \notin attachment[m]
                   /\ a.content_type = ALLOWED_TARGET_MODELS[response'.args.key]
                   /\ a.object_id = ToString(response'.args.pk)
                   /\ response'.rows = {[model |-> m, row |-> a]}
      ]_vars

\* an attach endpoint answered 404 for an existing target another user owns
ForeignTargetRefused ==
    /\ response.view \in AttachViews
    /\ response.args.key \in AllowedKeys
    /\ response.status = 404
    /\ \E t \in Objects(ALLOWED_TARGET_MODELS[response.args.key]) :
          t.pk = response.args.pk /\ t.created_by \in Users \ {response.user}
    /\ \A m \in AttachModels : attachment[m] = {}

\* C6: requests to the result form of a session the requester may see, run
\* one after another, leave exactly one CookResult for the session: the
\* first inserts it with the requester as owner, each later one is answered
\* with that same row; a request for a session out of sight is answered 404
\* and writes nothing.
OneResultPerVisibleSession ==
    [][response'.view = "cookresult-edit" =>
          LET spk == response'.args.pk
              was == {r \in cookresult : r.cook_session = spk}
              now == {r \in cookresult' : r.cook_session = spk}
              visible == \E t \in cooksession :
                             t.pk = spk /\ (t.created_by = response'.user \/ t.created_by = NULL)
          IN /\ ~visible => (response'.status = 404 /\ cookresult' = cookresult)
             /\ visible =>
                   /\ response'.status \in {200, 302}
                   /\ Cardinality(now) = 1
                   /\ response'.rows = {[model |-> "CookResult", row |-> r] : r \in now}
                   /\ was # {} => {r.pk : r \in now} = {r.pk : r \in was}
                   /\ was = {} => \A r \in now : r.pk = nextpk["CookResult"] /\ r.created_by = response'.user
                   /\ {r \in cookresult' : r.cook_session # spk} = {r \in cookresult : r.cook_session # spk}
      ]_vars

\* a later request got the row an earlier request created and rated
SameResultReturned ==
    /\ response.view = "cookresult-edit"
    /\ response.status = 200
    /\ nextpk["CookResult"] = 2
    /\ \E x \in response.rows : x.row.pk = 1 /\ x.row.overall_rating # NoRating
    /\ Cardinality(cookresult) = 1

\* C7: however the lookups and inserts of overlapping result-form requests
\* interleave, no two CookResult rows name the same session.
AtMostOneResultPerSession ==
    \A r1 \in cookresult : \A r2 \in cookresult : r1.cook_session = r2.cook_session => r1.pk = r2.pk

\* two requests passed the lookup, one has inserted, the other's insert is pending
SecondInsertPending ==
    \E req \in inflight :
        /\ \E r \in cookresult : r.cook_session = req.session /\ r.created_by # req.user
        /\ response.view = "cookresult-edit"
        /\ response.status \in {200, 302}

\* C8: a Dish row leaves the table only by a dish-delete answered 302 while
\* no CookSession names it; a dish-delete of a dish some session names, of
\* any owner, fails (500) and leaves every table as it was.
DishDeleteProtected ==
    [][/\ \A d \in dish : d.pk \notin {d2.pk : d2 \in dish'} =>
             /\ response'.view = "dish-delete"
             /\ response'.status = 302
             /\ \A t \in cooksession : t.dish # d.pk
       /\ response'.view = "dish-delete" =>
             \A x \in response'.rows :
                 (\E t \in cooksession : t.dish = x.row.pk) =>
                     /\ response'.status \in {200, 500}
                     /\ dish' = dish
                     /\ cooksession' = cooksession
                     /\ x.row \in dish'
       /\ (response'.view = "dish-delete" /\ response'.status = 500) =>
             /\ \E x \in response'.rows : \E t \in cooksession' : t.dish = x.row.pk
             /\ <<recipe, dish, cooksession, cookresult, attachment>>' =
                   <<recipe, dish, cooksession, cookresult, attachment>>
       /\ \A t \in cooksession' : t.dish \in {d.pk : d \in dish'}
      ]_vars

\* a dish-delete failed on a session that another user owns
DishDeleteRefused ==
    /\ response.view = "dish-delete"
    /\ response.status = 500
    /\ \E x \in response.rows : x.row \in dish
    /\ \E y \in response.side : y.row \in cooksession /\ y.row.created_by \in Users \ {response.user}

DishOwnerNameUnique ==
    [][/\ \A d1 \in dish' : \A d2 \in dish' :
             (d1.created_by # NULL /\ d1.created_by = d2.created_by /\ d1.name = d2.name) => d1.pk = d2.pk
       /\ (response'.view \in {"dish-add", "dish-edit"} /\ response'.status = 500) =>
             /\ dish' = dish
             /\ \A x \in response'.rows :
                   /\ x.row.created_by = response'.user
                   /\ \E d \in dish :
                         d.pk # x.row.pk /\ d.created_by = x.row.created_by /\ d.name = x.row.name
      ]_vars

\* a dish-add was refused for the owner's own name, which another owner's
\* dish and nobody's dish could share without harm
DuplicateDishRefused ==
    /\ response.view = "dish-add"
    /\ response.status = 500
    /\ \E x \in response.rows :
          /\ x.row \notin dish
          /\ \E d \in dish : d.created_by = response.user /\ d.name = x.row.name

\* C11 as stated: a result form posted with a rating outside 1..10 is
\* rejected and leaves the CookResult table exactly as it was, also when the
\* session had no result before the request.
RejectedRatingWritesNothing ==
    [][(response'.view = "cookresult-edit" /\ response'.ctx.errors) => cookresult' = cookresult]_vars

\* C11: a result form posted with a rating outside 1..10 is rendered again
\* with its errors (200) and changes no row that existed; the only row the
\* request may add is the empty result of the session, its ratings all
\* null. No stored rating is ever outside 1..10.
RejectedRatingChangesNoRow ==
    [][/\ \A r \in cookresult' : \A f \in RatingFields :
             r[f] = NoRating \/ (MinRating <= r[f] /\ r[f] <= MaxRating)
       /\ (response'.view = "cookresult-edit" /\ response'.ctx.errors) =>
             /\ response'.status = 200
             /\ cookresult \subseteq cookresult'
             /\ \A r \in cookresult' \ cookresult :
                   /\ r.cook_session = response'.args.pk
                   /\ \A r0 \in cookresult : r0.cook_session # r.cook_session
                   /\ \A f \in RatingFields : r[f] = NoRating
                   /\ response'.rows = {[model |-> "CookResult", row |-> r]}
             /\ \E x \in response'.rows : x.row \in cookresult'
       /\ (response'.view = "cookresult-edit" /\ response'.status = 302) => ~response'.ctx.errors
      ]_vars

\* a rejected form left the ratings saved earlier as they were
RejectedRatingOnRatedResult ==
    /\ response.view = "cookresult-edit"
    /\ response.ctx.errors
    /\ response.status = 200
    /\ \E x \in response.rows : x.row \in cookresult /\ x.row.taste_rating = 5

\* C12: every request without an authenticated user, to whatever route and
\* with whatever model_key and id, is answered with a redirect to the login
\* page and leaves the database as it was.
AnonymousRedirectedToLogin ==
    [][response'.user = AnonymousUser =>
          /\ response'.status = 302
          /\ response'.location = "login"
          /\ <<recipe, dish, cooksession, cookresult, attachment>>' =
                <<recipe, dish, cooksession, cookresult, attachment>>]_vars

\* the attachment model each attach route saves
AttachViewModel ==
    [v \in AttachViews |->
        CASE v = "target-note-add" -> "Note"
          [] v = "target-url-add" -> "ReferenceURL"
          [] v = "target-image-add" -> "TrackedImage"
          [] v = "target-pdf-add" -> "PDFDocument"]

CreateViewModel ==
    [v \in {"recipe-add", "dish-add", "cooksession-add"} |->
        CASE v = "recipe-add" -> "Recipe" [] v = "dish-add" -> "Dish" [] v = "cooksession-add" -> "CookSession"]
ListViewModel ==
    [v \in {"recipe-list", "dish-list", "cooksession-list"} |->
        CASE v = "recipe-list" -> "Recipe" [] v = "dish-list" -> "Dish" [] v = "cooksession-list" -> "CookSession"]

\* C14 as stated: a create form that passed validation (the request is not
\* answered with the form again) is answered with a redirect and adds
\* exactly one row, owned by the requester.
ValidCreateRedirects ==
    [][\A m \in DomainModels :
          (response'.view \in DOMAIN CreateViewModel /\ m = CreateViewModel[response'.view]
              /\ response'.status # 200) =>
              /\ response'.status = 302
              /\ \E r \in Objects(m)' :
                    /\ Objects(m)' = Objects(m) \cup {r}
                    /\ r \notin Objects(m)
                    /\ r.created_by = response'.user]_vars

\* C14: a create request answered with a redirect has added exactly one row
\* to its table, owned by the requester, and changed nothing else; the
\* user's list of that table returns every row the user owns, that one
\* included. A create form that passed validation is answered so, but for a
\* dish-add whose name the requester's own dish already has: it fails (500)
\* and adds nothing.
CreateAddsOwnedRow ==
    [][/\ \A m \in DomainModels :
             (response'.view \in DOMAIN CreateViewModel /\ m = CreateViewModel[response'.view]
                 /\ response'.status = 302) =>
                 \E r \in Objects(m)' :
                     /\ Objects(m)' = Objects(m) \cup {r}
                     /\ r \notin Objects(m)
                     /\ r.pk \notin {r0.pk : r0 \in Objects(m)}
                     /\ r.created_by = response'.user
                     /\ response'.user \in Users
                     /\ response'.rows = {[model |-> m, row |-> r]}
                     /\ \A m2 \in Models \ {m} : Objects(m2)' = Objects(m2)
       /\ (response'.view \in DOMAIN CreateViewModel /\ response'.status # 302) =>
             /\ <<recipe, dish, cooksession, cookresult, attachment>>' =
                   <<recipe, dish, cooksession, cookresult, attachment>>
             /\ response'.status # 200 =>
                   /\ response'.view = "dish-add"
                   /\ response'.status = 500
                   /\ \A x \in response'.rows : \E d \in dish :
                         d.created_by = response'.user /\ d.name = x.row.name
       /\ \A m \in DomainModels :
             (response'.view \in DOMAIN ListViewModel /\ m = ListViewModel[response'.view]) =>
                 \A r \in Objects(m)' :
                     r.created_by = response'.user => [model |-> m, row |-> r] \in response'.rows
      ]_vars

\* a user's list returns the row that user created through the create form
CreatedRowListed ==
    /\ response.view \in DOMAIN ListViewModel
    /\ inserted = 1
    /\ \E x \in response.rows : x.row.pk = 2 /\ x.row.created_by = response.user

\* the rows of a table that a user owns or that nobody owns
OwnOrUnowned(rows, u) == {r \in rows : r.created_by = u \/ r.created_by = NULL}

\* C15: while a dashboard response is on its way, each of its eight counts
\* is the number of rows of that kind whose owner is the requester or
\* null, and recent_sessions holds min(10, visible) of the requester's
\* visible sessions, latest cooked_on first and latest insert first within
\* a day, none of the sessions left out coming before one that is listed;
\* so a visible session cooked today is listed when no other visible
\* session is dated today or later.
DashboardConsistent ==
    (response.view = "dashboard" /\ response.status = 200) =>
        LET u == response.user
            counts == response.ctx.counts
            recent == response.ctx.recent_sessions
            visible == OwnOrUnowned(cooksession, u)
            listed == {recent[i] : i \in DOMAIN recent}
        IN  /\ counts.recipes = Cardinality(OwnOrUnowned(recipe, u))
            /\ counts.dishes = Cardinality(OwnOrUnowned(dish, u))
            /\ counts.sessions = Cardinality(visible)
            /\ counts.results = Cardinality(OwnOrUnowned(cookresult, u))
            /\ counts.images = Cardinality(OwnOrUnowned(attachment["TrackedImage"], u))
            /\ counts.notes = Cardinality(OwnOrUnowned(attachment["Note"], u))
            /\ counts.urls = Cardinality(OwnOrUnowned(attachment["ReferenceURL"], u))
            /\ counts.pdfs = Cardinality(OwnOrUnowned(attachment["PDFDocument"], u))
            /\ Len(recent) = IF Cardinality(visible) < 10 THEN Cardinality(visible) ELSE 10
            /\ listed \subseteq visible
            /\ \A i, j \in DOMAIN recent :
                  i < j => \/ recent[i].cooked_on > recent[j].cooked_on
                           \/ recent[i].cooked_on = recent[j].cooked_on /\ recent[i].pk > recent[j].pk
            /\ \A s \in visible \ listed : \A t \in listed :
                  t.cooked_on > s.cooked_on \/ (t.cooked_on = s.cooked_on /\ t.pk > s.pk)
            /\ \A s \in visible :
                  (s.cooked_on = Today /\ \A t \in visible \ {s} : t.cooked_on < Today) => s \in listed

\* the dashboard of a user with more than ten earlier sessions lists the
\* session that user has just created for today, and leaves a session out
JustCreatedSessionListed ==
    /\ response.view = "dashboard"
    /\ response.status = 200
    /\ Cardinality(OwnOrUnowned(cooksession, response.user)) > Len(response.ctx.recent_sessions)
    /\ \E i \in DOMAIN response.ctx.recent_sessions :
          LET s == response.ctx.recent_sessions[i] IN
          /\ s.pk = nextpk["CookSession"] - 1
          /\ s.pk > 10
          /\ s.created_by = response.user
          /\ s.cooked_on = Today
          /\ \A t \in OwnOrUnowned(cooksession, response.user) \ {s} : t.cooked_on < Today
    /\ response.ctx.counts.sessions > 10
    /\ response.ctx.counts.results + response.ctx.counts.notes > 0

\* C16: while a dashboard response is on its way, its four buckets count
\* the requester's visible sessions by cooked_on: Today those of today,
\* Next 7 days those after today up to today+7, Next 30 days those after
\* today up to today+30, Past 30 days those from today-30 up to today; so
\* no session is counted by both Today and Next 7 days, Next 7 days is at
\* most Next 30 days, and Today is at most Past 30 days.
SessionBucketsByWindow ==
    (response.view = "dashboard" /\ response.status = 200) =>
        LET buckets == response.ctx.session_buckets
            visible == OwnOrUnowned(cooksession, response.user)
            InToday(s) == s.cooked_on = Today
            InWeek(s) == Today < s.cooked_on /\ s.cooked_on <= Today + 7
            InMonth(s) == Today < s.cooked_on /\ s.cooked_on <= Today + 30
            InPast(s) == Today - 30 <= s.cooked_on /\ s.cooked_on <= Today
        IN  /\ buckets.today = Cardinality({s \in visible : InToday(s)})
            /\ buckets.week = Cardinality({s \in visible : InWeek(s)})
            /\ buckets.month = Cardinality({s \in visible : InMonth(s)})
            /\ buckets.past30 = Cardinality({s \in visible : InPast(s)})
            /\ buckets.today + buckets.week =
                  Cardinality({s \in visible : InToday(s) \/ InWeek(s)})
            /\ buckets.week <= buckets.month
            /\ buckets.today <= buckets.past30

\* a dashboard whose buckets tell the windows apart: a session of today,
\* one inside the month but past the week, earlier ones inside the past
\* 30 days, and a session the other user owns left out
BucketsTellWindowsApart ==
    /\ response.view = "dashboard"
    /\ response.status = 200
    /\ response.ctx.session_buckets.today > 0
    /\ response.ctx.session_buckets.week < response.ctx.session_buckets.month
    /\ response.ctx.session_buckets.today < response.ctx.session_buckets.past30
    /\ \E s \in cooksession : s.created_by \notin {response.user, NULL} /\ s.cooked_on >= Today - 30

\* C17: a session delete answered 302 leaves no CookResult row that names
\* the deleted session; and after every step, also of requests that
\* overlap, every CookResult row names exactly one CookSession row that
\* exists and no CookSession is named by two CookResult rows.
ResultLivesWithItsSession ==
    [][/\ (response'.view = "cooksession-delete" /\ response'.status = 302) =>
             \A x \in response'.rows :
                 /\ x.row \in cooksession
                 /\ \A s \in cooksession' : s.pk # x.row.pk
                 /\ \A r \in cookresult' : r.cook_session # x.row.pk
       /\ \A r \in cookresult' : Cardinality({s \in cooksession' : s.pk = r.cook_session}) = 1
       /\ \A s \in cooksession' : Cardinality({r \in cookresult' : r.cook_session = s.pk}) <= 1
      ]_vars

\* a session delete took the session's result with it while the insert of
\* another request for that session was still pending
ResultDeletedWithSession ==
    /\ response.view = "cooksession-delete"
    /\ response.status = 302
    /\ \E x \in response.rows : \E y \in response.side :
          /\ y.model = "CookResult"
          /\ y.row.cook_session = x.row.pk
          /\ y.row \notin cookresult
          /\ \E req \in inflight : req.session = x.row.pk

\* C18 as stated: in every state every attachment's content_type is one
\* of the four domain models and a row of that model with the id its
\* object_id spells exists, also after deletes.
AttachmentsBound ==
    \A m \in AttachModels : \A a \in attachment[m] :
        /\ a.content_type \in DomainModels
        /\ \E t \in Objects(a.content_type) : ToString(t.pk) = a.object_id

\* the model each create or update route saves
FormViewModel ==
    [v \in {"recipe-add", "dish-add", "cooksession-add", "recipe-edit", "dish-edit", "cooksession-edit"} |->
        CASE v \in {"recipe-add", "recipe-edit"} -> "Recipe"
          [] v \in {"dish-add", "dish-edit"} -> "Dish"
          [] v \in {"cooksession-add", "cooksession-edit"} -> "CookSession"]

\* C19: a create or update form of Recipe, Dish or CookSession answered
\* 302 has saved one row; when the row had no owner before the save (a new
\* row, or an existing row whose owner was null) its owner is now the
\* requester, and when it had an owner that owner is kept; an attach form
\* answered 302 has saved one new row whose owner is the requester.
OwnerStampedWhenAbsent ==
    [][/\ \A m \in DomainModels :
             (response'.view \in DOMAIN FormViewModel /\ m = FormViewModel[response'.view]
                 /\ response'.status = 302) =>
                 \E x \in response'.rows :
                     /\ response'.rows = {x}
                     /\ x.model = m
                     /\ x.row \in Objects(m)'
                     /\ \A old \in Objects(m) :
                           old.pk = x.row.pk =>
                               /\ response'.view \in UpdateViews
                               /\ old.created_by = NULL => x.row.created_by = response'.user
                               /\ old.created_by # NULL => x.row.created_by = old.created_by
                     /\ (\A old \in Objects(m) : old.pk # x.row.pk) =>
                           /\ response'.view \notin UpdateViews
                           /\ x.row.created_by = response'.user
       /\ (response'.view \in AttachViews /\ response'.status = 302) =>
             \E x \in response'.rows :
                 /\ response'.rows = {x}
                 /\ x.row \in attachment'[AttachViewModel[response'.view]]
                 /\ x.row \notin attachment[AttachViewModel[response'.view]]
                 /\ x.row.created_by = response'.user
      ]_vars

\* an update form saved by the owner of a row left that owner in place
\* while the form changed the row
OwnerKeptOnUpdate ==
    /\ response.view \in UpdateViews
    /\ response.status = 302
    /\ response.side = {}
    /\ \E x \in response.rows :
          /\ x.row.created_by = response.user
          /\ x.row.pk = 2
          /\ inserted = 1

\* C20 as stated: the request whose insert comes second, a CookResult of
\* its session being there already, is answered with an error and leaves
\* the table as it was.
SecondInsertFails ==
    [][\A req \in inflight :
          (req \notin inflight' /\ \E r \in cookresult : r.cook_session = req.session) =>
              /\ response'.status = 500
              /\ cookresult' = cookresult]_vars

\* C20: the request whose insert comes second, a CookResult of its session
\* being there already, adds no row and is served the form (200) or the
\* redirect (302) on the row the first insert made, as a request that found
\* the row at its lookup is; a pending request fails (500) only when
\* its session was deleted meanwhile, and then the table is as it was.
SecondInsertServedExistingRow ==
    [][\A req \in inflight :
          req \notin inflight' =>
              /\ response'.view = "cookresult-edit"
              /\ response'.user = req.user
              /\ response'.args.pk = req.session
              /\ (\E r \in cookresult : r.cook_session = req.session) =>
                    /\ response'.status \in {200, 302}
                    /\ response'.status = 302 <=> (req.method = "POST" /\ CookResultFormValid(req.rating))
                    /\ Pks(cookresult') = Pks(cookresult)
                    /\ nextpk' = nextpk
                    /\ \E r \in cookresult :
                          /\ r.cook_session = req.session
                          /\ response'.side = {[model |-> "CookResult", row |-> r]}
                          /\ \E x \in response'.rows :
                                /\ response'.rows = {x}
                                /\ x.row.pk = r.pk
                                /\ x.row.created_by = r.created_by
                                /\ x.row \in cookresult'
              /\ response'.status \notin {200, 302} =>
                    /\ response'.status = 500
                    /\ \A s \in cooksession : s.pk # req.session
                    /\ cookresult' = cookresult]_vars

\* the request that lost the race saved its ratings on the row the other
\* user's request had inserted
LoserSavedOnWinnersRow ==
    /\ response.view = "cookresult-edit"
    /\ response.status = 302
    /\ \E y \in response.side : \E x \in response.rows :
          /\ y.row.pk = x.row.pk
          /\ y.row.created_by # response.user
          /\ x.row.overall_rating # y.row.overall_rating
          /\ x.row \in cookresult

\* c is the part of name after its last "/", the whole name when it has none
IsLastComponent(c, name) ==
    \E i \in 0 .. Len(name) :
        /\ i = 0 \/ name[i] = "/"
        /\ c = SubSeq(name, i + 1, Len(name))
        /\ \A j \in 1 .. Len(c) : c[j] # "/"

\* C21: a save of a PDFDocument whose original_filename is blank sets it,
\* when the document has a file, to the last "/"-separated component of the
\* file's name at that save, and leaves it blank when there is no file; no
\* step changes an original_filename that is not blank, whatever file the
\* document is saved with afterwards.
OriginalFilenameDerivedOnce ==
    [][/\ \A old \in attachment["PDFDocument"] : \A new \in attachment'["PDFDocument"] :
             (new.pk = old.pk /\ old.original_filename # <<>>) =>
                 new.original_filename = old.original_filename
       /\ (response'.view \in {"target-pdf-add", "admin-pdf-change"} /\ response'.status = 302) =>
             \E x \in response'.rows :
                 /\ response'.rows = {x}
                 /\ x.row \in attachment'["PDFDocument"]
                 /\ LET before == {d \in attachment["PDFDocument"] : d.pk = x.row.pk}
                        uploaded == "upload" \in DOMAIN response'.ctx
                    IN  /\ (uploaded /\ \A d \in before : d.original_filename = <<>>) =>
                              IsLastComponent(x.row.original_filename, response'.ctx.upload)
                        /\ ~uploaded =>
                              \A d \in before :
                                  /\ x.row.pdf = d.pdf
                                  /\ (d.original_filename = <<>> /\ d.pdf # <<>>) =>
                                        IsLastComponent(x.row.original_filename, d.pdf)
                                  /\ (d.original_filename = <<>> /\ d.pdf = <<>>) =>
                                        x.row.original_filename = <<>>
      ]_vars

\* a document saved again with a file of another name kept the
\* original_filename its first save derived from a name with directories
OriginalFilenameKeptOnResave ==
    /\ response.view = "admin-pdf-change"
    /\ response.status = 302
    /\ "upload" \in DOMAIN response.ctx
    /\ \E x \in response.rows : \E y \in response.side :
          /\ x.row.original_filename = y.row.original_filename
          /\ x.row.original_filename = <<"b">>
          /\ y.row.pdf # x.row.pdf
          /\ ~IsLastComponent(x.row.original_filename, response.ctx.upload)
          /\ x.row \in attachment["PDFDocument"]

\* C22 as stated: no step changes the owner of a row that has one, not to
\* another user and not back to null.
OwnerNeverChanges ==
    [][\A m \in Models : \A r \in Objects(m) : \A r2 \in Objects(m)' :
          (r2.pk = r.pk /\ r.created_by # NULL) => r2.created_by = r.created_by]_vars

\* C22: the form_valid of an update request saves the row it read with the
\* requester as owner when the row had no owner as read, and with the owner
\* it had as read otherwise; so the owner of a row changes from one user to
\* another only when an update request saves a row that another request
\* saved after it was read, the new owner is the requester, and no step
\* sets an owner back to null.
OwnerChangesByStaleStampOnly ==
    [][/\ \A req \in inflight :
             req \notin inflight' =>
                 /\ response'.status = 302
                 /\ \E r2 \in recipe' :
                       /\ r2.pk = req.obj.pk
                       /\ response'.rows = {[model |-> "Recipe", row |-> r2]}
                       /\ r2.created_by = IF req.obj.created_by = NULL THEN req.user
                                                                        ELSE req.obj.created_by
       /\ \A r \in recipe : \A r2 \in recipe' :
             (r2.pk = r.pk /\ r.created_by # NULL /\ r2.created_by # r.created_by) =>
                 /\ r2.created_by # NULL
                 /\ \E req \in inflight :
                       /\ req \notin inflight'
                       /\ req.obj.pk = r.pk
                       /\ req.obj.created_by # r.created_by
                       /\ r2.created_by = req.user
      ]_vars

\* an update form saved by one user took over a recipe that another
\* user's update had stamped in the meantime
OwnerTakenOver ==
    /\ response.view = "recipe-edit"
    /\ response.status = 302
    /\ \E x \in response.rows : \E y \in response.side :
          /\ y.row.pk = x.row.pk
          /\ y.row.created_by \notin {NULL, response.user}
          /\ x.row.created_by = response.user
          /\ x.row \in recipe

\* C23: while a dashboard response is on its way, each of its four bucket
\* counts is the number of sessions the session list returns to the same
\* user for when=today, week, month, past30; and while the response of such
\* a list request is on its way, it holds as many sessions as the bucket
\* of that name on the user's dashboard counts.
DashboardAndListAgree ==
    /\ (response.view = "dashboard" /\ response.status = 200) =>
          LET buckets == response.ctx.session_buckets
              list(when) == CookSessionListView_get_queryset(response.user, when)
          IN  /\ buckets.today = Cardinality(list("today"))
              /\ buckets.week = Cardinality(list("week"))
              /\ buckets.month = Cardinality(list("month"))
              /\ buckets.past30 = Cardinality(list("past30"))
    /\ (response.view = "cooksession-list" /\ response.status = 200 /\ "when" \in DOMAIN response.ctx) =>
          LET buckets == DashboardContext(response.user).session_buckets
              n == Cardinality(response.rows)
          IN  /\ response.ctx.when = "today" => n = buckets.today
              /\ response.ctx.when = "week" => n = buckets.week
              /\ response.ctx.when = "month" => n = buckets.month
              /\ response.ctx.when = "past30" => n = buckets.past30

\* the list for when=past30 returned sessions of today and of today-30 and
\* left out sessions the user may see
Past30ListMatchesBucket ==
    /\ response.view = "cooksession-list"
    /\ response.status = 200
    /\ "when" \in DOMAIN response.ctx
    /\ response.ctx.when = "past30"
    /\ \E x \in response.rows : x.row.cooked_on = Today
    /\ \E x \in response.rows : x.row.cooked_on = Today - MonthDays
    /\ \E s \in Filter(cooksession, response.user) : s.cooked_on > Today
    /\ Cardinality(response.rows) = DashboardContext(response.user).session_buckets.past30

\* C24 as stated: while a dashboard response is on its way, every part of
\* it is what the dashboard would hold with the rows owned by other users
\* taken out of every table, the session_count and the order of
\* popular_dishes included.
DashboardNoninterference ==
    (response.view = "dashboard" /\ response.status = 200) =>
        LET u == response.user
            mine == OwnOrUnowned(cooksession, u)
        IN  /\ response.ctx.counts.sessions = Cardinality(mine)
            /\ \A i \in DOMAIN response.ctx.popular_dishes :
                  LET p == response.ctx.popular_dishes[i] IN
                  /\ p.dish \in OwnOrUnowned(dish, u)
                  /\ p.session_count = Cardinality({s \in mine : s.dish = p.dish.pk})

\* C24: while a dashboard response is on its way, its counts, its
\* recent_sessions, recent_recipes, buckets and outcome histogram and the
\* dishes listed in popular_dishes are those of the rows whose owner is the
\* requester or null; the session_count of a listed dish counts every
\* session of the dish, of any owner.
DashboardConfinedButSessionCount ==
    (response.view = "dashboard" /\ response.status = 200) =>
        LET u == response.user
            ctx == response.ctx
            mine == OwnOrUnowned(cooksession, u)
            popular == {ctx.popular_dishes[i] : i \in DOMAIN ctx.popular_dishes}
        IN  /\ ctx.counts.recipes = Cardinality(OwnOrUnowned(recipe, u))
            /\ ctx.counts.dishes = Cardinality(OwnOrUnowned(dish, u))
            /\ ctx.counts.sessions = Cardinality(mine)
            /\ ctx.counts.results = Cardinality(OwnOrUnowned(cookresult, u))
            /\ \A i \in DOMAIN ctx.recent_sessions : ctx.recent_sessions[i] \in mine
            /\ ctx.recent_recipes = OwnOrUnowned(recipe, u)
            /\ ctx.session_buckets.today = Cardinality({s \in mine : s.cooked_on = Today})
            /\ \A i \in DOMAIN ctx.top_outcomes :
                  ctx.top_outcomes[i].count = Cardinality(OwnOrUnowned(cookresult, u))
            /\ {p.dish : p \in popular} = OwnOrUnowned(dish, u)
            /\ Len(ctx.popular_dishes) = Cardinality(popular)
            /\ \A p \in popular :
                  p.session_count = Cardinality({s \in cooksession : s.dish = p.dish.pk})
            /\ \A i, j \in DOMAIN ctx.popular_dishes :
                  i < j => ctx.popular_dishes[i].session_count >= ctx.popular_dishes[j].session_count

\* a dashboard whose popular_dishes counts, for a dish nobody owns, a
\* session that the other user owns
OthersSessionCounted ==
    /\ response.view = "dashboard"
    /\ response.status = 200
    /\ \E i \in DOMAIN response.ctx.popular_dishes :
          LET p == response.ctx.popular_dishes[i] IN
          /\ p.dish.created_by = NULL
          /\ \E s \in cooksession : s.dish = p.dish.pk /\ s.created_by \notin {NULL, response.user}
          /\ p.session_count > response.ctx.counts.sessions

\* C25 as stated: in every state every CookSession that a user owns names a
\* Dish whose owner is that user or null and, when recipe_used is set, a
\* Recipe whose owner is that user or null; and every Dish that a user
\* owns with a default_recipe names a Recipe whose owner is that user or null.
ReferencesStayVisible ==
    /\ \A s \in cooksession :
          s.created_by # NULL =>
              /\ \A d \in dish : d.pk = s.dish => d.created_by \in {s.created_by, NULL}
              /\ \A r \in recipe : r.pk = s.recipe_used => r.created_by \in {s.created_by, NULL}
    /\ \A d \in dish :
          d.created_by # NULL =>
              \A r \in recipe : r.pk = d.default_recipe => r.created_by \in {d.created_by, NULL}

\* C25: a session form saved by a user names a dish, and a recipe if any,
\* that the user may see at that moment, and a dish form saved by a user
\* names a default recipe, if any, that the user may see at that moment;
\* a record's reference leads to another user's record only after that
\* user's update form stamped a referenced row that had no owner.
ReferencesVisibleWhenSaved ==
    [][/\ (response'.view \in {"cooksession-add", "cooksession-edit"} /\ response'.status = 302) =>
             \A x \in response'.rows :
                 /\ x.row \in cooksession'
                 /\ x.row.created_by = response'.user
                 /\ \E d \in dish' : d.pk = x.row.dish /\ d.created_by \in {response'.user, NULL}
                 /\ x.row.recipe_used # NoPk =>
                       \E r \in recipe' : r.pk = x.row.recipe_used /\ r.created_by \in {response'.user, NULL}
       /\ (response'.view \in {"dish-add", "dish-edit"} /\ response'.status = 302) =>
             \A x \in response'.rows :
                 /\ x.row \in dish'
                 /\ x.row.default_recipe # NoPk =>
                       \E r \in recipe' : r.pk = x.row.default_recipe /\ r.created_by \in {response'.user, NULL}
       /\ (ReferencesStayVisible /\ ~ReferencesStayVisible') =>
             /\ response'.view \in {"recipe-edit", "dish-edit"}
             /\ response'.status = 302
             /\ \E y \in response'.side : y.row.created_by = NULL
             /\ \E x \in response'.rows : x.row.created_by = response'.user
      ]_vars

\* a user's session names a dish that another user's update form stamped
SessionNamesOthersDish ==
    \E s \in cooksession : \E d \in dish :
        /\ d.pk = s.dish
        /\ s.created_by # NULL
        /\ d.created_by \notin {NULL, s.created_by}
        /\ response.view = "cooksession-detail"
        /\ response.status = 200
        /\ response.user = s.created_by
        /\ \E x \in response.rows : x.row = s
====
